---- MODULE Spec2Model ----
(***************************************************************************)
(* Verification model of the ctfhub scoring core: the challenge solve      *)
(* state machine (Challenge.save behind the set-flag and update views),    *)
(* the credit splitter and the per-competition aggregation of              *)
(* CtfStats.ranking_stats and Ctf.team_timeline.                           *)
(***************************************************************************)
EXTENDS Integers, Sequences, FiniteSets, TLC

(***************************************************************************)
(* Bounds of the model.                                                    *)
(***************************************************************************)
NumMembers == 2
NumChallenges == 2
NumFlags == 2
MaxTime == 2
MaxPoints == 1

Members == 1..NumMembers
Challenges == 1..NumChallenges
FlagTexts == <<"flag{a}", "flag{b}", "flag{c}", "flag{d}">>
Flags == {""} \cup {FlagTexts[i] : i \in 1..NumFlags}
Times == 0..MaxTime
\* a null date (models.DateTimeField(null=True))
NoDate == -1

VARIABLES now, ctf, challenges, solvers, inflight, last, race, stats, teams

vars == <<now, ctf, challenges, solvers, inflight, last, race, stats, teams>>

(***************************************************************************)
(* Ctf: the date predicates the set-flag view consults.                    *)
(***************************************************************************)
is_time_limited(c) == c.start_date # NoDate /\ c.end_date # NoDate

is_permanent(c) == c.start_date = NoDate /\ c.end_date = NoDate

\* is_finished raises AttributeError when exactly one date is set
is_finished_raises(c) == ~is_permanent(c) /\ ~is_time_limited(c)

is_finished(c, t) ==
    IF is_permanent(c) THEN TRUE
    ELSE t >= c.end_date

(***************************************************************************)
(* Challenge: the row as created, and Challenge.save on a loaded instance. *)
(***************************************************************************)
NewChallenge(p, t) ==
    [flag |-> "", status |-> "unsolved", solved_time |-> t,
     points |-> p]

\* ModelForm binding: the loaded row with the posted fields set on it; the
\* FieldTracker remembers the loaded flag, the MonitorField the loaded status
Bind(row, text, by) ==
    [row |-> [row EXCEPT !.flag = text],
     last_update_by |-> by,
     tracked_flag |-> row.flag,
     monitor_status |-> row.status]

\* mutant: only a flag set on an empty one counts as changed
has_changed_FromEmptyOnly(inst) ==
    inst.tracked_flag = "" /\ inst.row.flag # ""

has_changed(inst) == inst.tracked_flag # inst.row.flag

\* mutant: any changed flag marks the challenge solved
SaveStatus_AlwaysSolved(inst) ==
    IF has_changed(inst) THEN [inst EXCEPT !.row.status = "solved"] ELSE inst

\* first half of Challenge.save: status from the flag, on a changed flag only
SaveStatus(inst) ==
    IF has_changed(inst)
    THEN [inst EXCEPT !.row.status =
              IF inst.row.flag # "" THEN "solved" ELSE "unsolved"]
    ELSE inst

\* mutant: the submitter is added whether or not the flag changed
SaveSolvers_Unconditional(inst, current) == current \cup {inst.last_update_by}

\* mutant: the submitter replaces the solvers instead of joining them
SaveSolvers_Replace(inst, current) ==
    IF has_changed(inst) THEN {inst.last_update_by} ELSE current

\* mutant: only the first solver is recorded
SaveSolvers_FirstOnly(inst, current) ==
    IF has_changed(inst) /\ current = {} THEN {inst.last_update_by} ELSE current

\* solvers.add(last_update_by), on a changed flag only
SaveSolvers(inst, current) ==
    IF has_changed(inst) THEN current \cup {inst.last_update_by}
    ELSE current

\* mutant: every save of a solved challenge stamps solved_time
MonitorPreSave_NoMonitor(inst, t) ==
    IF inst.row.status \in {"solved"}
    THEN [inst.row EXCEPT !.solved_time = t]
    ELSE inst.row

\* MonitorField.pre_save: stamp when the monitored status changed into "solved"
MonitorPreSave(inst, t) ==
    IF inst.monitor_status # inst.row.status /\ inst.row.status \in {"solved"}
    THEN [inst.row EXCEPT !.solved_time = t]
    ELSE inst.row

(***************************************************************************)
(* Initial state: one competition with its challenges just created.       *)
(***************************************************************************)
CtfDates ==
    {<<NoDate, NoDate>>, <<0, MaxTime>>, <<NoDate, MaxTime>>}

NoRequest == [pc |-> "idle"]

NoLast == [op |-> "none"]

NoRace == [phase |-> "idle"]

\* no statistics page is being computed
NoStats == [pc |-> "idle"]

\* no Team row and no registration request
NoTeams == [rows |-> {}]

\* a competition as the create form leaves it: public, not rated
NewCtf(start, end) ==
    [start_date |-> start, end_date |-> end, visibility |-> "OPEN", rating |-> 0]

Init ==
    /\ now = 0
    /\ \E d \in CtfDates : ctf = NewCtf(d[1], d[2])
    /\ \E p \in [Challenges -> 0..MaxPoints] :
           challenges = [c \in Challenges |-> NewChallenge(p[c], 0)]
    /\ solvers = [c \in Challenges |-> {}]
    /\ inflight = [m \in Members |-> NoRequest]
    /\ last = NoLast
    /\ race = NoRace
    /\ teams = NoTeams
    /\ stats = NoStats

\* the clock of datetime.now()
Tick ==
    /\ now < MaxTime
    /\ now' = now + 1
    /\ UNCHANGED <<ctf, challenges, solvers, inflight, last, race, stats,
                   teams>>

(***************************************************************************)
(* post_save of Challenge: the scored-challenge notification.  `inst` is   *)
(* the instance as Challenge.save leaves it, its FieldTracker not yet      *)
(* reset; the result is whether the message is sent.                       *)
(***************************************************************************)
\* timedelta(seconds=1), in clock ticks
NotifyWindow == 1

is_public(c) == c.visibility = "OPEN"

\* mutant: the age of solved_time is not looked at
discord_notify_scored_challenge_AnyAge(created, c, inst, t) ==
    /\ ~created
    /\ is_public(c)
    /\ inst.row.flag # ""
    /\ has_changed(inst)

discord_notify_scored_challenge(created, c, inst, t) ==
    /\ ~created
    /\ is_public(c)
    /\ inst.row.flag # ""
    /\ has_changed(inst)
    /\ ~(t - inst.row.solved_time >= NotifyWindow)

\* the instance after Model.save wrote the row
Saved(inst, t) == [inst EXCEPT !.row = MonitorPreSave(inst, t)]

(***************************************************************************)
(* ChallengeSetFlagView served as one request: load, bind, form_valid,     *)
(* Challenge.save.                                                         *)
(***************************************************************************)
SetFlagOutcome(c, t) ==
    IF is_finished_raises(c) THEN "error"
    ELSE IF is_finished(c, t) THEN "rejected"
    ELSE "saved"

SetFlag(m, ch, text) ==
    LET inst == SaveStatus(Bind(challenges[ch], text, m))
        outcome == SetFlagOutcome(ctf, now)
    IN  /\ \A x \in Members : inflight[x].pc = "idle"
        /\ race.phase = "idle"
        /\ IF outcome = "saved"
           THEN /\ solvers' = [solvers EXCEPT ![ch] = SaveSolvers(inst, @)]
                /\ challenges' = [challenges EXCEPT ![ch] = MonitorPreSave(inst, now)]
           ELSE UNCHANGED <<solvers, challenges>>
        /\ last' = [op |-> "set_flag", ch |-> ch, by |-> m,
                    outcome |-> outcome, changed |-> has_changed(inst),
                    was |-> challenges[ch].status,
                    notified |-> /\ outcome = "saved"
                                 /\ discord_notify_scored_challenge(
                                        FALSE, ctf, Saved(inst, now), now)]
        /\ UNCHANGED <<now, ctf, inflight, race, stats, teams>>

(***************************************************************************)
(* ChallengeUpdateView served as one request: the update form also posts   *)
(* the solver selection; ModelForm.save writes the instance and then sets  *)
(* each many-to-many field to the posted selection.  The other fields are  *)
(* posted as the form was rendered, so the points stay.                    *)
(***************************************************************************)
UpdateFormValid(text, sel) ==
    ~((sel # {} /\ text = "") \/ (sel = {} /\ text # ""))

ChallengeUpdate(m, ch, text, sel) ==
    LET inst == SaveStatus(Bind(challenges[ch], text, m))
        valid == UpdateFormValid(text, sel)
    IN  /\ \A x \in Members : inflight[x].pc = "idle"
        /\ race.phase = "idle"
        /\ IF valid
           THEN /\ solvers' = [solvers EXCEPT ![ch] = sel]
                /\ challenges' = [challenges EXCEPT ![ch] = MonitorPreSave(inst, now)]
           ELSE UNCHANGED <<solvers, challenges>>
        /\ last' = [op |-> "update", ch |-> ch, by |-> m,
                    outcome |-> IF valid THEN "saved" ELSE "invalid",
                    changed |-> has_changed(inst),
                    was |-> challenges[ch].status,
                    notified |-> /\ valid
                                 /\ discord_notify_scored_challenge(
                                        FALSE, ctf, Saved(inst, now), now)]
        /\ UNCHANGED <<now, ctf, inflight, race, stats, teams>>

\* flag submissions only
Next ==
    \/ Tick
    \/ \E m \in Members, ch \in Challenges, text \in Flags : SetFlag(m, ch, text)

Spec == Init /\ [][Next]_vars

\* flag submissions and challenge updates, on a time-limited competition
InitForms ==
    /\ Init
    /\ is_time_limited(ctf)
    /\ \A c \in Challenges : challenges[c].points = MaxPoints

NextForms ==
    \/ Next
    \/ \E m \in Members, ch \in Challenges, text \in Flags,
          sel \in SUBSET Members : ChallengeUpdate(m, ch, text, sel)

SpecForms == InitForms /\ [][NextForms]_vars

(***************************************************************************)
(* Two set-flag requests in flight on one challenge.  Each request is a    *)
(* load of the row (get_object and the form binding), then form_valid     *)
(* with the first half of Challenge.save (status, solvers.add), then the   *)
(* row UPDATE of Model.save; no transaction or row lock joins the steps.  *)
(***************************************************************************)
RaceChallenge == 1

Started == {m \in Members : inflight[m].pc # "idle"}

Load(m, text) ==
    /\ inflight[m].pc = "idle"
    /\ race.phase \in {"idle", "racing"}
    /\ Cardinality(Started) < 2
    /\ inflight' = [inflight EXCEPT ![m] =
           [pc |-> "bound", inst |-> Bind(challenges[RaceChallenge], text, m),
            text |-> text, outcome |-> "pending"]]
    /\ race' = IF race.phase = "idle"
               THEN [phase |-> "racing", row |-> challenges[RaceChallenge],
                     solvers |-> solvers[RaceChallenge]]
               ELSE race
    /\ UNCHANGED <<now, ctf, challenges, solvers, last, stats, teams>>

FormValid(m) ==
    LET r == inflight[m]
        outcome == SetFlagOutcome(ctf, now)
    IN  /\ r.pc = "bound"
        /\ IF outcome = "saved"
           THEN /\ inflight' = [inflight EXCEPT ![m] =
                       [r EXCEPT !.pc = "saving", !.inst = SaveStatus(r.inst)]]
                /\ solvers' = [solvers EXCEPT ![RaceChallenge] =
                       SaveSolvers(r.inst, @)]
           ELSE /\ inflight' = [inflight EXCEPT ![m] =
                       [r EXCEPT !.pc = "done", !.outcome = outcome]]
                /\ UNCHANGED solvers
        /\ UNCHANGED <<now, ctf, challenges, last, race, stats, teams>>

Write(m) ==
    LET r == inflight[m]
    IN  /\ r.pc = "saving"
        /\ challenges' = [challenges EXCEPT ![RaceChallenge] =
               MonitorPreSave(r.inst, now)]
        /\ inflight' = [inflight EXCEPT ![m] =
               [r EXCEPT !.pc = "done", !.outcome = "saved"]]
        /\ UNCHANGED <<now, ctf, solvers, last, race, stats, teams>>

\* the submissions that bring the challenge to the state the race starts in
Before(m, text) ==
    /\ ctf.end_date = MaxTime
    /\ SetFlag(m, RaceChallenge, text)

InitRace == InitForms

NextRace ==
    \/ Tick
    \/ \E m \in Members, text \in Flags : Before(m, text)
    \/ \E m \in Members, text \in Flags : Load(m, text)
    \/ \E m \in Members : FormValid(m)
    \/ \E m \in Members : Write(m)

SpecRace == InitRace /\ [][NextRace]_vars

TypeOK ==
    /\ now \in Times
    /\ \A c \in Challenges :
        /\ challenges[c].flag \in Flags
        /\ challenges[c].status \in {"unsolved", "solved"}
        /\ challenges[c].solved_time \in Times
        /\ solvers[c] \subseteq Members

(***************************************************************************)
(* The solve state machine (Spec: requests served one at a time).          *)
(***************************************************************************)
Accepted == SetFlagOutcome(ctf, now) = "saved"

LastSetFlagSaved == last.op = "set_flag" /\ last.outcome = "saved"

\* C1: after any sequence of flag submissions the stored status is "solved"
\* exactly when the stored flag is non-empty.
C1_StatusIffFlag ==
    \A c \in Challenges :
        (challenges[c].status = "solved") <=> (challenges[c].flag # "")

\* a saved submission has just cleared the flag of a solved challenge
C1_Witness ==
    /\ LastSetFlagSaved
    /\ last.changed
    /\ last.was = "solved"
    /\ challenges[last.ch].flag = ""
    /\ challenges[last.ch].status = "unsolved"

\* C2: a submission whose text equals the stored flag changes neither the
\* row (status, solved_time, flag) nor the solver set, whoever submits it, and
\* Challenge.save raises nothing: the request fails only where is_finished does.
C2_UnchangedIsNoOp ==
    [][\A m \in Members, ch \in Challenges :
          SetFlag(m, ch, challenges[ch].flag)
              => /\ challenges'[ch] = challenges[ch]
                 /\ solvers'[ch] = solvers[ch]
                 /\ ~last'.changed
                 /\ (last'.outcome = "error" <=> is_finished_raises(ctf))]_vars

\* a member outside the solver set has re-submitted the stored flag of a
\* solved challenge and the submission was saved
C2_Witness ==
    /\ LastSetFlagSaved
    /\ ~last.changed
    /\ challenges[last.ch].status = "solved"
    /\ last.by \notin solvers[last.ch]

\* C3 (as claimed): no operation on a challenge, the update form included,
\* ever removes a member from its solver set.
C3_SolversNeverShrink ==
    [][\A c \in Challenges : solvers[c] \subseteq solvers'[c]]_vars

\* C3 (amended): a flag submission never removes a solver; the solver set
\* loses members only by a valid challenge update, which leaves exactly the
\* posted selection.
C3_ShrinkOnlyByUpdate ==
    [][\A c \in Challenges :
          \/ solvers[c] \subseteq solvers'[c]
          \/ \E m \in Members, text \in Flags, sel \in SUBSET Members :
                /\ ChallengeUpdate(m, c, text, sel)
                /\ UpdateFormValid(text, sel)
                /\ solvers'[c] = sel]_vars

\* a saved flag submission has added a second solver to a challenge
C3_Witness ==
    /\ LastSetFlagSaved
    /\ last.changed
    /\ last.by \in solvers[last.ch]
    /\ Cardinality(solvers[last.ch]) >= 2

\* C4: clearing the flag of a solved challenge leaves the solver set as it
\* was, and a changed submission adds the submitter only if the text is
\* non-empty.
C4_ClearDoesNotCredit ==
    [][\A m \in Members, ch \in Challenges :
          (SetFlag(m, ch, "") /\ challenges[ch].status = "solved")
              => solvers'[ch] = solvers[ch]]_vars

\* C5 (as claimed): once a challenge has been solved (in Spec: once it has a
\* solver), a later unsolved->solved flip keeps solved_time, and a
\* solved->unsolved flip never changes it.
C5_StampedOnlyFirstTime ==
    [][\A c \in Challenges :
          \/ /\ challenges[c].status = "unsolved"
             /\ challenges'[c].status = "solved"
             /\ solvers[c] # {}
          \/ /\ challenges[c].status = "solved"
             /\ challenges'[c].status = "unsolved"
          => challenges'[c].solved_time = challenges[c].solved_time]_vars

\* C5 (amended): every unsolved->solved flip stamps solved_time with the time
\* of that save, the first as well as any later one; every other submission
\* (solved->unsolved, a re-submission while solved, an unchanged text) leaves
\* solved_time as it was.
C5_StampedOnEveryFlip ==
    [][\A c \in Challenges :
          IF challenges[c].status = "unsolved" /\ challenges'[c].status = "solved"
          THEN challenges'[c].solved_time = now
          ELSE challenges'[c].solved_time = challenges[c].solved_time]_vars

\* a challenge solved before by another member has just been solved again,
\* later than its creation, and carries the time of this save
C5_Witness ==
    /\ LastSetFlagSaved
    /\ last.was = "unsolved"
    /\ challenges[last.ch].status = "solved"
    /\ solvers[last.ch] \ {last.by} # {}
    /\ now > 0
    /\ challenges[last.ch].solved_time = now

\* C6: a saved submission of a different non-empty flag on a solved challenge
\* stores the new text, keeps the status and solved_time, and adds the
\* submitter to the solvers already there.
C6_ResubmitWhileSolved ==
    [][\A m \in Members, ch \in Challenges, text \in Flags :
          /\ SetFlag(m, ch, text)
          /\ Accepted
          /\ challenges[ch].status = "solved"
          /\ text # ""
          /\ text # challenges[ch].flag
          => /\ challenges'[ch].flag = text
             /\ challenges'[ch].status = "solved"
             /\ challenges'[ch].solved_time = challenges[ch].solved_time
             /\ solvers'[ch] = solvers[ch] \cup {m}]_vars

\* a second member has re-submitted a different flag on a solved challenge,
\* at a later time than the solve
C6_Witness ==
    /\ LastSetFlagSaved
    /\ last.changed
    /\ last.was = "solved"
    /\ challenges[last.ch].status = "solved"
    /\ Cardinality(solvers[last.ch]) >= 2
    /\ challenges[last.ch].solved_time < now

(***************************************************************************)
(* Two submissions in flight (SpecRace).                                   *)
(***************************************************************************)
RaceOver ==
    /\ Cardinality(Started) = 2
    /\ \A m \in Started : inflight[m].pc = "done"

\* C7: when two submitters both loaded the challenge while it was unsolved
\* and each saved a non-empty flag, then whatever the interleaving of their
\* steps both are solvers and the challenge is solved with a non-empty flag.
C7_BothRacersCredited ==
    (/\ RaceOver
     /\ \A m \in Started :
           /\ inflight[m].inst.monitor_status = "unsolved"
           /\ inflight[m].text # ""
           /\ inflight[m].outcome = "saved")
    => /\ Started \subseteq solvers[RaceChallenge]
       /\ challenges[RaceChallenge].status = "solved"
       /\ challenges[RaceChallenge].flag # ""

\* both racers loaded the unsolved challenge, each saved a flag of its own,
\* and both are solvers
C7_Witness ==
    /\ RaceOver
    /\ \A m \in Started :
          /\ inflight[m].inst.monitor_status = "unsolved"
          /\ inflight[m].text # ""
          /\ inflight[m].outcome = "saved"
    /\ \E a, b \in Started : inflight[a].text # inflight[b].text
    /\ Started \subseteq solvers[RaceChallenge]

\* one submission applied alone to a stored challenge, at time t
Serial(store, m, text, outcome, t) ==
    LET inst == SaveStatus(Bind(store.row, text, m))
    IN  IF outcome = "saved"
        THEN [row |-> MonitorPreSave(inst, t),
              solvers |-> SaveSolvers(inst, store.solvers)]
        ELSE store

\* the outcomes of the two submissions applied one after the other, in either
\* order and at any two times, to the challenge as it was when the race began
SerialOutcomes ==
    LET base == [row |-> race.row, solvers |-> race.solvers]
    IN  {Serial(Serial(base, a, inflight[a].text, inflight[a].outcome, ta),
                b, inflight[b].text, inflight[b].outcome, tb) :
            <<a, b, ta, tb>> \in
                {q \in Started \X Started \X Times \X Times : q[1] # q[2]}}

\* C8: two concurrent submissions leave the challenge as some serial order of
\* the two would: no save from a stale load overwrites the other's change.
C8_Serializable ==
    RaceOver =>
        [row |-> challenges[RaceChallenge], solvers |-> solvers[RaceChallenge]]
            \in SerialOutcomes

(***************************************************************************)
(* Python floats.  chall.points / len(solvers), the += that follow, the    *)
(* products and quotients of the rating loop and round(x, 2) are IEEE-754  *)
(* double operations, rounded to nearest, ties to even.  A non-negative    *)
(* value is held as its binary expansion, most significant bit first:      *)
(* IntBits bits before the point, the rest of the FloatLen bits after it,  *)
(* of which only MantBits significant ones may be set.  Carries, products  *)
(* and long divisions run over limbs of LimbBits bits.                     *)
(***************************************************************************)
MantBits == 53
IntBits == 16
FloatLen == 96
LimbBits == 8

NumLimbs == FloatLen \div LimbBits

IntLimbs == IntBits \div LimbBits

\* Pow2[i + 1] = 2^i
Pow2 == <<1, 2, 4, 8, 16, 32, 64, 128, 256>>

Base == Pow2[LimbBits + 1]

LimbOf(b, j) ==
    LET o == LimbBits * (j - 1)
    IN  b[o + 1] * 128 + b[o + 2] * 64 + b[o + 3] * 32 + b[o + 4] * 16
        + b[o + 5] * 8 + b[o + 6] * 4 + b[o + 7] * 2 + b[o + 8]

ToLimbs(b) == [j \in 1..NumLimbs |-> LimbOf(b, j)]

ToBits(l) ==
    [i \in 1..FloatLen |->
        (l[(i - 1) \div LimbBits + 1]
            \div Pow2[LimbBits - ((i - 1) % LimbBits)]) % 2]

\* the limbs of the int n, 0 <= n < 2^IntBits
IntToLimbs(n) ==
    [j \in 1..NumLimbs |->
        IF j <= IntLimbs THEN (n \div (Base ^ (IntLimbs - j))) % Base ELSE 0]

\* float(n) of a small non-negative int
FromInt(n) == ToBits(IntToLimbs(n))

\* the next n limbs of r / k, for 0 <= r < k
RECURSIVE FracLimbs(_, _, _)
FracLimbs(r, k, n) ==
    IF n = 0 THEN <<>>
    ELSE IF r = 0 THEN [j \in 1..n |-> 0]
    ELSE <<(Base * r) \div k>> \o FracLimbs((Base * r) % k, k, n - 1)

\* what is left of r / k after n limbs
RECURSIVE FracRest(_, _, _)
FracRest(r, k, n) ==
    IF n = 0 \/ r = 0 THEN r ELSE FracRest((Base * r) % k, k, n - 1)

\* a + b + carry on the limbs 1..j, the carry coming from the right
RECURSIVE AddLimbs(_, _, _, _)
AddLimbs(a, b, j, carry) ==
    IF j = 0 THEN <<>>
    ELSE Append(AddLimbs(a, b, j - 1, (a[j] + b[j] + carry) \div Base),
                (a[j] + b[j] + carry) % Base)

\* the exact sum of two expansions
AddDigits(a, b) == ToBits(AddLimbs(ToLimbs(a), ToLimbs(b), NumLimbs, 0))

\* position of the leading 1, or 0 for zero
Lead(b) ==
    LET ones == {i \in 1..FloatLen : b[i] = 1}
    IN  IF ones = {} THEN 0 ELSE CHOOSE i \in ones : \A j \in ones : i <= j

IsZero(b) == \A i \in 1..FloatLen : b[i] = 0

\* a < b
FloatLess(a, b) ==
    \E i \in 1..FloatLen :
        /\ a[i] < b[i]
        /\ \A j \in 1..(i - 1) : a[j] = b[j]

\* round the exact expansion b (sticky: more non-zero digits follow it) to
\* MantBits significant bits, to nearest, ties to even
RoundToNearestEven(b, sticky) ==
    LET lead == Lead(b)
        low == lead + MantBits - 1
    IN  IF lead = 0 \/ low >= FloatLen THEN b
        ELSE LET kept == [i \in 1..FloatLen |-> IF i <= low THEN b[i] ELSE 0]
                 ulp == [i \in 1..FloatLen |-> IF i = low THEN 1 ELSE 0]
                 rest == sticky \/ \E i \in (low + 2)..FloatLen : b[i] = 1
                 up == b[low + 1] = 1 /\ (rest \/ b[low] = 1)
             IN  IF up THEN AddDigits(kept, ulp) ELSE kept

\* p / k for ints 0 <= p < 2^IntBits * k, k > 0: the double nearest the quotient
FloatDivInt(p, k) ==
    RoundToNearestEven(
        ToBits(SubSeq(IntToLimbs(p \div k), 1, IntLimbs)
                   \o FracLimbs(p % k, k, NumLimbs - IntLimbs)),
        FracRest(p % k, k, NumLimbs - IntLimbs) # 0)

\* a + b for two non-negative doubles
FloatAdd(a, b) ==
    IF IsZero(a) THEN b
    ELSE IF IsZero(b) THEN a
    ELSE RoundToNearestEven(AddDigits(a, b), FALSE)

\* m * a + carry on the limbs 1..j of a, for a small int m
RECURSIVE MulLimbs(_, _, _, _)
MulLimbs(a, m, j, carry) ==
    IF j = 0 THEN <<>>
    ELSE Append(MulLimbs(a, m, j - 1, (a[j] * m + carry) \div Base),
                (a[j] * m + carry) % Base)

\* the exact product of the int m and an expansion
MulDigits(m, a) == ToBits(MulLimbs(ToLimbs(a), m, NumLimbs, 0))

\* m * a for an int m (or a float holding it) and a double a
FloatMulInt(m, a) ==
    IF IsZero(a) THEN a ELSE RoundToNearestEven(MulDigits(m, a), FALSE)

\* the significand of a non-zero double, its leading 1 on top of
\* DivLimbs - 1 limbs, under one limb of headroom
DivLimbs == 8

Significand(b) ==
    LET lead == Lead(b)
        bit(i) == IF i <= FloatLen THEN b[i] ELSE 0
    IN  [j \in 1..DivLimbs |->
            IF j = 1 THEN 0
            ELSE LET o == lead + LimbBits * (j - 2)
                 IN  bit(o) * 128 + bit(o + 1) * 64 + bit(o + 2) * 32
                     + bit(o + 3) * 16 + bit(o + 4) * 8 + bit(o + 5) * 4
                     + bit(o + 6) * 2 + bit(o + 7)]

\* x <= y for two numbers of DivLimbs limbs
LimbsLeq(x, y) ==
    \/ x = y
    \/ \E j \in 1..DivLimbs :
           /\ x[j] < y[j]
           /\ \A i \in 1..(j - 1) : x[i] = y[i]

\* x - y - borrow on the limbs 1..j, for x >= y
RECURSIVE SubLimbs(_, _, _, _)
SubLimbs(x, y, j, borrow) ==
    IF j = 0 THEN <<>>
    ELSE Append(SubLimbs(x, y, j - 1,
                         IF x[j] - y[j] - borrow < 0 THEN 1 ELSE 0),
                (x[j] - y[j] - borrow + Base) % Base)

\* the next digit of r / d, 0 <= r < Base * d: the quotient of the leading
\* limbs is the digit or one more
DivDigit(r, d) ==
    LET top == ((r[1] * Base + r[2]) * Base + r[3]) \div (d[2] * Base + d[3])
        guess == IF top < Base THEN top ELSE Base - 1
    IN  IF LimbsLeq(MulLimbs(d, guess, DivLimbs, 0), r)
        THEN guess ELSE guess - 1

\* the digits of r / d after those of q, n more of them, and what is left
RECURSIVE DivDigits(_, _, _, _)
DivDigits(q, r, d, n) ==
    IF n = 0 THEN [q |-> q, rest |-> r]
    ELSE LET digit == DivDigit(r, d)
             left == SubLimbs(r, MulLimbs(d, digit, DivLimbs, 0), DivLimbs, 0)
             next == [j \in 1..DivLimbs |->
                         IF j < DivLimbs THEN left[j + 1] ELSE 0]
         IN  IF \A j \in 1..DivLimbs : next[j] = 0
             THEN [q |-> q \o <<digit>> \o [j \in 1..(n - 1) |-> 0],
                   rest |-> next]
             ELSE DivDigits(Append(q, digit), next, d, n - 1)

\* a / b for two doubles, a >= 0, b > 0
FloatDiv(a, b) ==
    IF IsZero(a) THEN a
    ELSE LET res == DivDigits(<<>>, Significand(a), Significand(b), DivLimbs)
             \* bit t of the quotient, of weight 2^-t; digit 1 is 0 or 1
             qbit(t) == IF t = 0 THEN res.q[1]
                        ELSE (res.q[(t - 1) \div LimbBits + 2]
                                 \div Pow2[LimbBits - ((t - 1) % LimbBits)]) % 2
             width == LimbBits * (DivLimbs - 1)
             shift == IntBits + Lead(a) - Lead(b)
             lost == \E t \in 0..width : shift + t > FloatLen /\ qbit(t) = 1
         IN  RoundToNearestEven(
                 [i \in 1..FloatLen |->
                     IF i - shift \in 0..width THEN qbit(i - shift) ELSE 0],
                 lost \/ \E j \in 1..DivLimbs : res.rest[j] # 0)

\* round(x, 2): the double nearest the two-decimal number nearest x, ties
\* of the latter to even
Round2(x) ==
    LET cents == MulDigits(100, x)
        whole == LimbOf(cents, 1) * Base + LimbOf(cents, 2)
        half == cents[IntBits + 1] = 1
        rest == \E i \in (IntBits + 2)..FloatLen : cents[i] = 1
        n == IF half /\ (rest \/ whole % 2 = 1) THEN whole + 1 ELSE whole
    IN  FloatDivInt(n, 100)

(***************************************************************************)
(* The credit splitter.  One solved challenge worth `points` with solver   *)
(* set `solvers` is credited twice: by the member_points loop of           *)
(* CtfStats.ranking_stats, followed by total_points = sum(...), and by the *)
(* accumulation loop of Ctf.team_timeline over the members of the          *)
(* timeline (here the whole team, the others having solved other           *)
(* challenges of the competition).                                         *)
(***************************************************************************)
TeamSize == 6
MaxSharePoints == 3

Team == 1..TeamSize

share_OfTeam(points, S) == FloatDivInt(points, TeamSize)

\* chall.points / len(chall.solvers.all())
share(points, S) == FloatDivInt(points, Cardinality(S))

\* the keys of a dict held as the sequence of its items, in insertion order
Keys(d) == {d[i].member : i \in 1..Len(d)}

InitShare ==
    /\ now = 0
    /\ ctf = NewCtf(NoDate, NoDate)
    /\ challenges = [c \in Challenges |-> NewChallenge(0, 0)]
    /\ solvers = [c \in Challenges |-> {}]
    /\ inflight = [m \in Members |-> NoRequest]
    /\ last = NoLast
    /\ race = NoRace
    /\ teams = NoTeams
    /\ \E p \in 0..MaxSharePoints, S \in (SUBSET Team) \ {{}} :
           stats = [pc |-> "member_points", points |-> p, solvers |-> S,
                    member_points |-> <<>>, total_points |-> FromInt(0),
                    summed |-> 0, accu |-> <<>>]

\* ranking_stats: one turn of `for member in chall.solvers.all()`, the rows
\* coming in the order of their ids
RankCredit(m) ==
    /\ stats.pc = "member_points"
    /\ m \in stats.solvers \ Keys(stats.member_points)
    /\ \A o \in stats.solvers \ Keys(stats.member_points) : m <= o
    /\ stats' = [stats EXCEPT
                    !.member_points =
                        Append(@, [member |-> m,
                                   points |-> FloatAdd(FromInt(0),
                                                 share(stats.points, stats.solvers))]),
                    !.pc = IF stats.solvers \ Keys(stats.member_points) = {m}
                           THEN "sum" ELSE @]
    /\ UNCHANGED <<now, ctf, challenges, solvers, inflight, last, race, teams>>

\* ranking_stats: total_points = sum(ctf.member_points.values()), one
\* addition of the builtin's loop: left to right, starting from 0
SumPoints ==
    /\ stats.pc = "sum"
    /\ LET i == stats.summed + 1
       IN  stats' = [stats EXCEPT
                        !.total_points =
                            FloatAdd(@, stats.member_points[i].points),
                        !.summed = i,
                        !.pc = IF i = Len(stats.member_points)
                               THEN "timeline" ELSE @]
    /\ UNCHANGED <<now, ctf, challenges, solvers, inflight, last, race, teams>>

\* team_timeline: one turn of `for member in members` for the challenge
TimelineCredit ==
    /\ stats.pc = "timeline"
    /\ LET member == Len(stats.accu) + 1
           points == IF member \in stats.solvers
                     THEN share(stats.points, stats.solvers)
                     ELSE FromInt(0)
       IN  stats' = [stats EXCEPT
                        !.accu = Append(@, FloatAdd(FromInt(0), points)),
                        !.pc = IF member = TeamSize THEN "done" ELSE @]
    /\ UNCHANGED <<now, ctf, challenges, solvers, inflight, last, race, teams>>

NextShare ==
    \/ \E m \in Team : RankCredit(m)
    \/ SumPoints
    \/ TimelineCredit

SpecShare == InitShare /\ [][NextShare]_vars

\* the challenge has been credited by both loops
Credited == stats.pc = "done"

\* C9 (as stated): for a challenge with points P and k >= 1 solvers, the
\* shares credited to the solvers sum to exactly P, and every member outside
\* the solver set is credited 0.
C9_SharesSumToPoints ==
    Credited =>
        /\ stats.total_points = FromInt(stats.points)
        /\ Keys(stats.member_points) = stats.solvers
        /\ \A m \in Team \ stats.solvers : stats.accu[m] = FromInt(0)

\* C9 (amended): every solver is credited the same share by both loops and
\* every member outside the solver set is credited 0; the shares sum to
\* exactly P when there are at most five solvers.
C9_SharesSumToPointsUpToFive ==
    Credited =>
        /\ Cardinality(stats.solvers) <= 5 =>
               stats.total_points = FromInt(stats.points)
        /\ Keys(stats.member_points) = stats.solvers
        /\ \A i \in 1..Len(stats.member_points) :
               stats.member_points[i].points
                   = stats.accu[stats.member_points[i].member]
        /\ \A m \in Team \ stats.solvers : stats.accu[m] = FromInt(0)

\* three solvers of a one-point challenge (thirds are rounded) next to three
\* members who did not solve it
C9_Witness ==
    /\ Credited
    /\ stats.points = 1
    /\ Cardinality(stats.solvers) = 3
    /\ stats.total_points = FromInt(1)
    /\ stats.accu[CHOOSE m \in stats.solvers : TRUE] # FromInt(0)

(***************************************************************************)
(* CtfStats.ranking_stats over the store: the competition it selects and   *)
(* the points it aggregates for it.                                        *)
(***************************************************************************)
TicksPerYear == 2
MaxRating == 2

\* start_date__year
YearOf(t) == t \div TicksPerYear

Years == {YearOf(t) : t \in Times}

\* what the visibility column holds: the values of Ctf.VisibilityType, and
\* "public", the value of the earlier Choices("public", "private") that the
\* queries of CtfStats still select
Visibilities == {"OPEN", "PRIV", "public"}

\* Ctf.solved_challenges
solved_challenges(chs) == {c \in Challenges : chs[c].status = "solved"}

RECURSIVE SumOfPoints(_, _)
SumOfPoints(chs, S) ==
    IF S = {} THEN 0
    ELSE LET c == CHOOSE x \in S : TRUE
         IN  chs[c].points + SumOfPoints(chs, S \ {c})

\* Ctf.scored_points
scored_points(chs) == SumOfPoints(chs, solved_challenges(chs))

\* the filter of the queryset of ranking_stats, for the competition c in the
\* year `year` at time t; a NULL date passes no comparison
InRankingQuery(c, chs, solv, t, year) ==
    /\ c.visibility = "public"
    /\ c.rating > 0
    /\ c.end_date # NoDate /\ c.end_date < t
    /\ c.start_date # NoDate /\ YearOf(c.start_date) = year
    /\ \E ch \in Challenges : solv[ch] # {} /\ chs[ch].status = "solved"

\* the challenges the member_points loop goes through
AggregatedChallenges(chs) == Challenges

\* ctf.member_points[member] once the loop has gone through the first n
\* challenges among `of`
RECURSIVE PointsAfter(_, _, _, _, _)
PointsAfter(m, chs, solv, of, n) ==
    IF n = 0 THEN FromInt(0)
    ELSE IF n \in of /\ m \in solv[n]
         THEN FloatAdd(PointsAfter(m, chs, solv, of, n - 1),
                       share(chs[n].points, solv[n]))
         ELSE PointsAfter(m, chs, solv, of, n - 1)

\* the members of S in the order of their ids
RECURSIVE InOrder(_)
InOrder(S) ==
    IF S = {} THEN <<>>
    ELSE LET m == CHOOSE x \in S : \A y \in S : x <= y
         IN  <<m>> \o InOrder(S \ {m})

\* the keys of ctf.member_points, in insertion order, after n challenges
RECURSIVE KeysAfter(_, _, _)
KeysAfter(solv, of, n) ==
    IF n = 0 THEN <<>>
    ELSE LET before == KeysAfter(solv, of, n - 1)
             seen == {before[i] : i \in 1..Len(before)}
         IN  IF n \in of THEN before \o InOrder(solv[n] \ seen) ELSE before

\* ctf.member_points as the dict the loop leaves
member_points(chs, solv) ==
    LET of == AggregatedChallenges(chs)
        keys == KeysAfter(solv, of, NumChallenges)
    IN  [i \in 1..Len(keys) |->
            [member |-> keys[i],
             points |-> PointsAfter(keys[i], chs, solv, of, NumChallenges)]]

\* sum(d.values()): left to right, starting from 0
RECURSIVE sum(_)
sum(d) ==
    IF d = <<>> THEN FromInt(0)
    ELSE FloatAdd(sum(SubSeq(d, 1, Len(d) - 1)), d[Len(d)].points)

\* total_points = sum(ctf.member_points.values())
total_points(chs, solv) == sum(member_points(chs, solv))

\* a finished competition, of any visibility and rating, whose flags were
\* submitted while it ran
InitStats ==
    /\ now = 0
    /\ \E v \in Visibilities, r \in 0..MaxRating :
           ctf = [NewCtf(0, MaxTime - 1) EXCEPT !.visibility = v, !.rating = r]
    /\ \E p \in [Challenges -> 0..MaxPoints] :
           challenges = [c \in Challenges |-> NewChallenge(p[c], 0)]
    /\ solvers = [c \in Challenges |-> {}]
    /\ inflight = [m \in Members |-> NoRequest]
    /\ last = NoLast
    /\ race = NoRace
    /\ teams = NoTeams
    /\ stats = NoStats

SpecStats == InitStats /\ [][Next]_vars

\* the years for which ranking_stats aggregates the competition
AggregatedYears ==
    {y \in Years : InRankingQuery(ctf, challenges, solvers, now, y)}

NumCtfs == 2
NumScorers == 3

Ctfs == 1..NumCtfs

Scorers == 1..NumScorers

\* datetime.now() when the statistics page is computed: after every date of
\* the store but its own
StatsNow == MaxTime + 1

StatsYears == {YearOf(t) : t \in 0..StatsNow}

\* the orderings of a finite set
Orderings(S) ==
    {f \in [1..Cardinality(S) -> S] :
        \A i, j \in 1..Cardinality(S) : f[i] = f[j] => i = j}

\* sorted(xs, key=..., reverse=True) of the members in iteration order
\* `order` with keys `key`: descending, equal keys staying in iteration order
SortedReverse(order, key) ==
    LET pos(m) == CHOOSE i \in 1..Len(order) : order[i] = m
    IN  CHOOSE f \in Orderings({order[i] : i \in 1..Len(order)}) :
            \A i, j \in 1..Len(order) :
                i < j => \/ FloatLess(key[f[j]], key[f[i]])
                         \/ key[f[i]] = key[f[j]] /\ pos(f[i]) < pos(f[j])

\* a challenge row of the store: never touched, solved by S, or solved by S
\* and cleared afterwards (the solvers stay)
ChallengeCases ==
    {cs \in [points : 0..MaxPoints, status : {"unsolved", "solved"},
             solvers : SUBSET Scorers] :
        cs.solvers = {} => cs.status = "unsolved" /\ cs.points = 0}

\* a competition of the store with its challenges
StoreCtf(c, cases) ==
    [ctf |-> c,
     challenges |-> [ch \in Challenges |->
                        [NewChallenge(cases[ch].points, 0) EXCEPT
                            !.status = cases[ch].status,
                            !.flag = IF cases[ch].status = "solved"
                                     THEN FlagTexts[1] ELSE ""]],
     solvers |-> [ch \in Challenges |-> cases[ch].solvers]]

Untouched == [points |-> 0, status |-> "unsolved", solvers |-> {}]

\* a competition nobody played
IdleCtf == StoreCtf(NewCtf(NoDate, NoDate), [ch \in Challenges |-> Untouched])

\* a competition that passes the visibility, rating and date filters
RankedCtf(start, end, rating) ==
    [NewCtf(start, end) EXCEPT !.visibility = "public", !.rating = rating]

\* the call CtfStats(year).ranking_stats() about to run over `store`
RankingCall(store, year) ==
    [pc |-> "query", year |-> year, store |-> store, qs |-> <<>>,
     member_points |-> <<>>, members |-> {}, rating_accu |-> <<>>,
     ratings |-> <<>>, percents |-> <<>>, member_percents |-> <<>>,
     percent |-> <<>>, alltime |-> <<>>, last_ctfs |-> <<>>,
     error |-> "none"]

Selected_AnyYear(store, t, year) ==
    {c \in DOMAIN store :
        InRankingQuery(store[c].ctf, store[c].challenges, store[c].solvers,
                       t, YearOf(store[c].ctf.start_date))}

\* the competitions the queryset selects
Selected(store, t, year) ==
    {c \in DOMAIN store :
        InRankingQuery(store[c].ctf, store[c].challenges, store[c].solvers,
                       t, year)}

\* the rows of the queryset when the database walks the competitions in
\* the order `rows`
QuerySet(st, t, rows) ==
    SelectSeq(rows, LAMBDA c : c \in Selected(st.store, t, st.year))

\* .order_by("start_date")
OrderedByStartDate(st, qs) ==
    \A i, j \in 1..Len(qs) :
        i < j => st.store[qs[i]].ctf.start_date
                     <= st.store[qs[j]].ctf.start_date

RankingQueryOf(st, t, rows) ==
    LET qs == QuerySet(st, t, rows)
    IN  [st EXCEPT !.qs = qs,
                   !.pc = IF qs = <<>> THEN "ranking" ELSE "member_points"]

\* for ctf in qs: the queryset evaluated, ordered by start_date, equal dates
\* in the order the database gives
RankingQuery ==
    /\ stats.pc = "query"
    /\ \E rows \in Orderings(Ctfs) :
           /\ OrderedByStartDate(stats, QuerySet(stats, now, rows))
           /\ stats' = RankingQueryOf(stats, now, rows)
    /\ UNCHANGED <<now, ctf, challenges, solvers, inflight, last, race, teams>>

\* one turn of `for ctf in qs`: ctf.member_points; after the last one the
\* members found are reset (percents, ratings, rating_accu)
AggregateOf(st) ==
    LET i == Len(st.member_points) + 1
        c == st.store[st.qs[i]]
        mp == member_points(c.challenges, c.solvers)
        members == st.members \cup Keys(mp)
    IN  [st EXCEPT
            !.member_points = Append(@, mp),
            !.members = members,
            !.rating_accu = [m \in members |-> FromInt(0)],
            !.ratings = [m \in members |-> <<>>],
            !.percents = [m \in members |-> <<>>],
            !.pc = IF i = Len(st.qs) THEN "ratings" ELSE @]

Aggregate ==
    /\ stats.pc = "member_points"
    /\ stats' = AggregateOf(stats)
    /\ UNCHANGED <<now, ctf, challenges, solvers, inflight, last, race, teams>>

\* d[member] of a dict held as the sequence of its items
Item(d, member) == d[CHOOSE i \in 1..Len(d) : d[i].member = member].points

percent_of_Fraction(points, total) == FloatDiv(points, total)

\* percent = 100 * points / total_points
percent_of(points, total) == FloatDiv(FloatMulInt(100, points), total)

rating_of_Overwrite(accu, rating, points, total) ==
    Round2(FloatDiv(FloatMulInt(rating, points), total))

\* rating = ctf.rating * points / total_points
\* member.rating_accu = round(member.rating_accu + rating, 2)
rating_of(accu, rating, points, total) ==
    Round2(FloatAdd(accu, FloatDiv(FloatMulInt(rating, points), total)))

\* one turn of `for ctf in ctfs`: total_points, then rating, percent and
\* rating_accu of every member; max() of no value and a division by a zero
\* total raise
AccumulateOf(st) ==
    LET i == Len(st.member_percents) + 1
        c == st.store[st.qs[i]].ctf
        mp == st.member_points[i]
        total == sum(mp)
        percent == [m \in st.members |->
                       IF m \in Keys(mp)
                       THEN percent_of(Item(mp, m), total)
                       ELSE FromInt(0)]
        accu == [m \in st.members |->
                    IF m \in Keys(mp)
                    THEN rating_of(st.rating_accu[m], c.rating,
                                   Item(mp, m), total)
                    ELSE Round2(st.rating_accu[m])]
    IN  IF mp = <<>>
        THEN [st EXCEPT !.pc = "raised", !.error = "ValueError"]
        ELSE IF IsZero(total)
        THEN [st EXCEPT !.pc = "raised", !.error = "ZeroDivisionError"]
        ELSE [st EXCEPT
                 !.rating_accu = accu,
                 !.ratings = [m \in st.members |-> Append(@[m], accu[m])],
                 !.percents = [m \in st.members |-> Append(@[m], percent[m])],
                 !.member_percents = Append(@, percent),
                 !.pc = IF i = Len(st.qs) THEN "ranking" ELSE @]

Accumulate ==
    /\ stats.pc = "ratings"
    /\ stats' = AccumulateOf(stats)
    /\ UNCHANGED <<now, ctf, challenges, solvers, inflight, last, race, teams>>

\* the exact sum of a sequence of doubles
RECURSIVE ExactSum(_)
ExactSum(xs) ==
    IF xs = <<>> THEN FromInt(0)
    ELSE AddDigits(ExactSum(SubSeq(xs, 1, Len(xs) - 1)), xs[Len(xs)])

\* quotient and remainder of the limbs 1..j of l by the small int n
RECURSIVE QuotLimbs(_, _, _)
QuotLimbs(l, n, j) ==
    IF j = 0 THEN [q |-> <<>>, r |-> 0]
    ELSE LET prev == QuotLimbs(l, n, j - 1)
             cur == prev.r * Base + l[j]
         IN  [q |-> Append(prev.q, cur \div n), r |-> cur % n]

\* statistics.mean(xs): the double nearest the exact mean
mean(xs) ==
    LET res == QuotLimbs(ToLimbs(ExactSum(xs)), Len(xs), NumLimbs)
    IN  RoundToNearestEven(ToBits(res.q), res.r # 0)

\* member.percent, the all-time ranking and the ranking of every
\* competition, the members being iterated in the order of the set
RankOf(st, iteration) ==
    LET order == SelectSeq(iteration, LAMBDA m : m \in st.members)
    IN  [st EXCEPT
            !.percent = [m \in st.members |-> Round2(mean(st.percents[m]))],
            !.alltime = SortedReverse(order, st.rating_accu),
            !.last_ctfs =
                [k \in 1..Len(st.qs) |->
                    LET i == Len(st.qs) + 1 - k
                        sorted == SortedReverse(order, st.member_percents[i])
                    IN  [ctf |-> st.qs[i],
                         ranking |->
                             [n \in 1..Len(sorted) |->
                                 [member |-> sorted[n],
                                  percent |->
                                      st.member_percents[i][sorted[n]]]]]],
            !.pc = "done"]

Rank ==
    /\ stats.pc = "ranking"
    /\ \E iteration \in Orderings(Scorers) :
           stats' = RankOf(stats, iteration)
    /\ UNCHANGED <<now, ctf, challenges, solvers, inflight, last, race, teams>>

NextRanking ==
    \/ RankingQuery
    \/ Aggregate
    \/ Accumulate
    \/ Rank

\* the store variables of the single competition, unused by the statistics
\* over several competitions
InitStatsPage ==
    /\ now = StatsNow
    /\ ctf = NewCtf(NoDate, NoDate)
    /\ challenges = [c \in Challenges |-> NewChallenge(0, 0)]
    /\ solvers = [c \in Challenges |-> {}]
    /\ inflight = [m \in Members |-> NoRequest]
    /\ last = NoLast
    /\ race = NoRace
    /\ teams = NoTeams

\* Scenario A: a competition of rating 100, challenge 1 (100 points) solved
\* by member 1 alone, challenge 2 (100 points) solved by members 1 and 2
ScenarioA ==
    [c \in Ctfs |->
        IF c = 1
        THEN StoreCtf(RankedCtf(0, 0, 100),
                 [ch \in Challenges |->
                     IF ch = 1
                     THEN [points |-> 100, status |-> "solved", solvers |-> {1}]
                     ELSE IF ch = 2
                     THEN [points |-> 100, status |-> "solved", solvers |-> {1, 2}]
                     ELSE Untouched])
        ELSE IdleCtf]

\* one competition with any challenges, the others idle
InitPercent ==
    /\ InitStatsPage
    /\ \/ stats = RankingCall(ScenarioA, 0)
       \/ \E r \in 1..MaxRating, cases \in [Challenges -> ChallengeCases] :
              stats = RankingCall(
                          [c \in Ctfs |->
                              IF c = 1 THEN StoreCtf(RankedCtf(0, 0, r), cases)
                              ELSE IdleCtf], 0)

SpecPercent == InitPercent /\ [][NextRanking]_vars

\* ranking_stats has returned
Ranked == stats.pc = "done"

\* the percents of the scoring members of the i-th competition of the
\* queryset, added up in the order of ctf.member_points
PercentSum(i) ==
    sum([n \in 1..Len(stats.member_points[i]) |->
            [member |-> stats.member_points[i][n].member,
             points |-> stats.member_percents[i][stats.member_points[i][n].member]]])

\* Scenario A gives member_points {1: 150, 2: 50}, total 200 and percents
\* {1: 75, 2: 25}
ScenarioAResult ==
    stats.store = ScenarioA =>
        /\ stats.qs = <<1>>
        /\ stats.member_points[1]
               = <<[member |-> 1, points |-> FromInt(150)],
                   [member |-> 2, points |-> FromInt(50)]>>
        /\ sum(stats.member_points[1]) = FromInt(200)
        /\ stats.member_percents[1][1] = FromInt(75)
        /\ stats.member_percents[1][2] = FromInt(25)

QueryDates == {<<0, 0>>, <<MaxTime, MaxTime>>, <<0, StatsNow>>, <<NoDate, NoDate>>}

\* challenge 1 of a competition of the statistics page: never touched,
\* solved by member 1, solved by member 1 and cleared afterwards
QueryChallenges ==
    {Untouched,
     [points |-> 1, status |-> "solved", solvers |-> {1}],
     [points |-> 1, status |-> "unsolved", solvers |-> {1}]}

\* a competition with challenge 1 as given and the other challenges untouched
QueryCtf(visibility, rating, dates, case) ==
    StoreCtf([NewCtf(dates[1], dates[2]) EXCEPT
                 !.visibility = visibility, !.rating = rating],
             [ch \in Challenges |-> IF ch = 1 THEN case ELSE Untouched])

\* a legacy public competition of year 0 that member 2 played
PlayedCtf ==
    QueryCtf("public", 1, <<1, 1>>,
             [points |-> 1, status |-> "solved", solvers |-> {2}])

\* competition 1 is any competition, competition 2 was played or not
InitQuery ==
    /\ InitStatsPage
    /\ \E visibility \in Visibilities, rating \in 0..MaxRating,
          dates \in QueryDates, case \in QueryChallenges,
          other \in {IdleCtf, PlayedCtf}, year \in StatsYears :
           stats = RankingCall(
                       [c \in Ctfs |->
                           IF c = 1
                           THEN QueryCtf(visibility, rating, dates, case)
                           ELSE other], year)

SpecQuery == InitQuery /\ [][NextRanking]_vars

\* the queryset has been evaluated
Queried == stats.pc # "query"

\* the competitions of the queryset
Accumulated == {stats.qs[i] : i \in 1..Len(stats.qs)}

\* PUBLIC, finished, rated, of the year, with a SOLVED challenge that has a
\* solver
Qualifies(c, t, year) ==
    /\ c.ctf.visibility = "OPEN"
    /\ c.ctf.end_date # NoDate /\ c.ctf.end_date < t
    /\ c.ctf.rating > 0
    /\ c.ctf.start_date # NoDate /\ YearOf(c.ctf.start_date) = year
    /\ \E ch \in Challenges :
           c.challenges[ch].status = "solved" /\ c.solvers[ch] # {}

\* C13: ranking_stats for year Y accumulates over a competition if and only
\* if it is PUBLIC (Ctf.VisibilityType.PUBLIC), finished, rated, started in
\* year Y and has a SOLVED challenge with a solver.
C13_AccumulatesIffQualifies ==
    Queried =>
        \A c \in Ctfs :
            c \in Accumulated <=> Qualifies(stats.store[c], now, stats.year)

\* Scenario B: competition A (rating 100, member 1 scores everything), then
\* competition B (rating 50, member 1 scores 40 of 100 points and member 2
\* scores 60), both finished in year 0
ScenarioB(visibility) ==
    [c \in Ctfs |->
        IF c = 1
        THEN StoreCtf([NewCtf(0, 0) EXCEPT
                          !.visibility = visibility, !.rating = 100],
                 [ch \in Challenges |->
                     IF ch = 1
                     THEN [points |-> 100, status |-> "solved", solvers |-> {1}]
                     ELSE Untouched])
        ELSE IF c = 2
        THEN StoreCtf([NewCtf(1, 1) EXCEPT
                          !.visibility = visibility, !.rating = 50],
                 [ch \in Challenges |->
                     IF ch = 1
                     THEN [points |-> 20, status |-> "solved", solvers |-> {2}]
                     ELSE IF ch = 2
                     THEN [points |-> 80, status |-> "solved", solvers |-> {1, 2}]
                     ELSE Untouched])
        ELSE IdleCtf]

\* the visibilities of the competitions of a year: PUBLIC as the model
\* stores it and the legacy value
RankingVisibilities == {"OPEN", "public"}

\* challenge 1 solved by S for 1 point
SolvedBy(S) == [points |-> 1, status |-> "solved", solvers |-> S]

\* two finished rated competitions of year 0, each with one solved challenge
InitRanking ==
    /\ InitStatsPage
    /\ \/ \E visibility \in RankingVisibilities :
              stats = RankingCall(ScenarioB(visibility), 0)
       \/ \E v1, v2 \in RankingVisibilities, r1 \in 1..MaxRating,
             start2 \in 0..1, S1, S2 \in SUBSET Scorers \ {{}} :
              stats = RankingCall(
                          [c \in Ctfs |->
                              IF c = 1
                              THEN QueryCtf(v1, r1, <<0, 0>>, SolvedBy(S1))
                              ELSE QueryCtf(v2, 1, <<start2, start2>>,
                                            SolvedBy(S2))], 0)

SpecRanking == InitRanking /\ [][NextRanking]_vars

\* C14: the accumulator folds the qualifying competitions in ascending
\* start-date order with rating_accu = round(rating_accu + rating * points /
\* total_points, 2): for PUBLIC finished competitions A (rating 100, member 1
\* 100%) then B (rating 50, member 1 40%, member 2 60%) the series is
\* {1: 100, 2: 0} after A and {1: 120, 2: 30} after B, and the all-time
\* ranking is [1, 2].
C14_ScenarioBSeries ==
    Ranked =>
        /\ OrderedByStartDate(stats, stats.qs)
        /\ stats.store = ScenarioB("OPEN") =>
               /\ stats.qs = <<1, 2>>
               /\ stats.ratings = (1 :> <<FromInt(100), FromInt(120)>>
                                   @@ 2 :> <<FromInt(0), FromInt(30)>>)
               /\ stats.alltime = <<1, 2>>

\* the same year held in rows with the legacy visibility: the fold gives
\* the series of Scenario B
ScenarioBLegacySeries ==
    Ranked /\ stats.store = ScenarioB("public") =>
        /\ stats.qs = <<1, 2>>
        /\ stats.ratings = (1 :> <<FromInt(100), FromInt(120)>>
                            @@ 2 :> <<FromInt(0), FromInt(30)>>)
        /\ stats.alltime = <<1, 2>>

\* C15: for every member the recorded ratings series is non-decreasing along
\* the competitions of the queryset.
C15_RatingsNonDecreasing ==
    \A m \in DOMAIN stats.ratings :
        \A i \in 1..Len(stats.ratings[m]) - 1 :
            ~FloatLess(stats.ratings[m][i + 1], stats.ratings[m][i])

\* a member's series has grown over two competitions
C15_Witness ==
    /\ Ranked
    /\ \E m \in DOMAIN stats.ratings :
           /\ Len(stats.ratings[m]) = 2
           /\ FloatLess(stats.ratings[m][1], stats.ratings[m][2])
           /\ FloatLess(FromInt(0), stats.ratings[m][1])

\* the members who are solvers in a qualifying competition of the year
QualifyingSolvers ==
    {m \in Scorers :
        \E c \in Ctfs, ch \in Challenges :
            /\ Qualifies(stats.store[c], now, stats.year)
            /\ m \in stats.store[c].solvers[ch]}

\* C16: all_time_ranking contains exactly the members who are solvers in at
\* least one qualifying competition of the year, each once, with final
\* rating_accu non-increasing along the list.
C16_AllTimeRanking ==
    Ranked =>
        /\ {stats.alltime[i] : i \in 1..Len(stats.alltime)} = QualifyingSolvers
        /\ \A i, j \in 1..Len(stats.alltime) :
               i < j =>
                   /\ stats.alltime[i] # stats.alltime[j]
                   /\ ~FloatLess(stats.rating_accu[stats.alltime[i]],
                                 stats.rating_accu[stats.alltime[j]])

\* the members who scored in competition c
ScoringMembers(c) ==
    Keys(member_points(stats.store[c].challenges, stats.store[c].solvers))

\* C17: the ranking of each qualifying competition lists exactly the members
\* who scored in that competition, ordered by its percent descending.
C17_RankingOfScoringMembers ==
    Ranked =>
        /\ \A c \in Ctfs :
               Qualifies(stats.store[c], now, stats.year) =>
                   \E k \in 1..Len(stats.last_ctfs) : stats.last_ctfs[k].ctf = c
        /\ \A k \in 1..Len(stats.last_ctfs) :
               LET ranking == stats.last_ctfs[k].ranking
               IN  /\ {ranking[n].member : n \in 1..Len(ranking)}
                          = ScoringMembers(stats.last_ctfs[k].ctf)
                   /\ \A i, j \in 1..Len(ranking) :
                          i < j => ~FloatLess(ranking[i].percent,
                                              ranking[j].percent)

\* the rankings computed from legacy rows list every member of the year
ListedMembersScored ==
    Ranked =>
        \A k \in 1..Len(stats.last_ctfs) :
            LET ranking == stats.last_ctfs[k].ranking
            IN  {ranking[n].member : n \in 1..Len(ranking)}
                    = ScoringMembers(stats.last_ctfs[k].ctf)

\* the competitions of the two stores: legacy public rows, rated, finished in
\* year 0 or in year 1, challenge 1 solved by S
ScopeCtfs ==
    {QueryCtf("public", rating, dates, SolvedBy(S)) :
        rating \in 1..MaxRating,
        dates \in {<<0, 0>>, <<MaxTime, MaxTime>>},
        S \in {{1}, {1, 2}}}

\* the start year of the competition is the year asked for
StartsIn(c, year) ==
    c.ctf.start_date # NoDate /\ YearOf(c.ctf.start_date) = year

\* ranking_stats for the same year on two stores that differ only in
\* competitions whose start year is another one
InitScope ==
    /\ InitStatsPage
    /\ \E year \in StatsYears, store, other \in [Ctfs -> ScopeCtfs] :
           /\ \A c \in Ctfs :
                  store[c] # other[c] =>
                      ~StartsIn(store[c], year) /\ ~StartsIn(other[c], year)
           /\ stats = [pc |-> "scoped",
                       run |-> RankingCall(store, year),
                       twin |-> RankingCall(other, year)]

\* the next step of a call, the database walking the competitions in the
\* order `rows` and the set of members being iterated in the order `iteration`
StepOf(st, t, rows, iteration) ==
    CASE st.pc = "query" -> RankingQueryOf(st, t, rows)
      [] st.pc = "member_points" -> AggregateOf(st)
      [] st.pc = "ratings" -> AccumulateOf(st)
      [] st.pc = "ranking" -> RankOf(st, iteration)
      [] OTHER -> st

Returned(st) == st.pc \in {"done", "raised"}

\* the orders a step of the two calls depends on: those of S when one of
\* them is at `pc`, one fixed order otherwise
OrdersAt(pc, S) ==
    IF pc \in {stats.run.pc, stats.twin.pc}
    THEN Orderings(S)
    ELSE {[i \in 1..Cardinality(S) |-> i]}

\* both calls take their next step
ScopedStep ==
    /\ stats.pc = "scoped"
    /\ ~Returned(stats.run) \/ ~Returned(stats.twin)
    /\ \E rows \in OrdersAt("query", Ctfs),
          iteration \in OrdersAt("ranking", Scorers) :
           /\ \A st \in {stats.run, stats.twin} :
                  st.pc = "query" =>
                      OrderedByStartDate(st, QuerySet(st, now, rows))
           /\ stats' = [stats EXCEPT
                           !.run = StepOf(@, now, rows, iteration),
                           !.twin = StepOf(@, now, rows, iteration)]
    /\ UNCHANGED <<now, ctf, challenges, solvers, inflight, last, race, teams>>

NextScope == ScopedStep

SpecScope == InitScope /\ [][NextScope]_vars

\* what a call has computed so far, the store left out
ResultOf(st) == [st EXCEPT !.store = <<>>]

\* rating_accu is 0 for every member when the accumulation starts
StartsFromZero(st) ==
    st.pc = "ratings" /\ st.member_percents = <<>> =>
        \A m \in st.members : st.rating_accu[m] = FromInt(0)

\* C18: rating_accu starts from 0 in every run, and the result of
\* ranking_stats for year Y is the same for two stores that differ only in
\* competitions whose start year is not Y.
C18_YearScoped ==
    /\ StartsFromZero(stats.run)
    /\ StartsFromZero(stats.twin)
    /\ ResultOf(stats.run) = ResultOf(stats.twin)

\* both calls have returned a ranking, on stores that differ in a
\* competition of another year
C18_Witness ==
    /\ stats.run.pc = "done"
    /\ stats.twin.pc = "done"
    /\ stats.run.alltime # <<>>
    /\ stats.run.store # stats.twin.store

\* a competition's challenges for team_timeline: the rows with their
\* solved_time
TimelineStore(cases, times) ==
    [challenges |-> [ch \in Challenges |->
                        [NewChallenge(cases[ch].points, times[ch]) EXCEPT
                            !.status = cases[ch].status,
                            !.flag = IF cases[ch].status = "solved"
                                     THEN FlagTexts[1] ELSE ""]],
     solvers |-> [ch \in Challenges |-> cases[ch].solvers]]

\* the call ctf.team_timeline() about to run
TimelineCall(store) ==
    [pc |-> "challs", store |-> store, challs |-> <<>>, members |-> <<>>,
     accu |-> <<>>, curves |-> <<>>]

TimelineChallenges_AnyStatus(store) ==
    {ch \in Challenges : store.solvers[ch] # {}}

\* .filter(status="solved", solvers__isnull=False)
TimelineChallenges(store) ==
    {ch \in Challenges :
        store.challenges[ch].status = "solved" /\ store.solvers[ch] # {}}

\* .order_by("solved_time").distinct("solved_time", "id"): the rows sorted
\* by solved_time, then id
OrderedBySolvedTime(store, S) ==
    CHOOSE f \in Orderings(S) :
        \A i, j \in 1..Len(f) :
            i < j =>
                \/ store.challenges[f[i]].solved_time
                       < store.challenges[f[j]].solved_time
                \/ /\ store.challenges[f[i]].solved_time
                          = store.challenges[f[j]].solved_time
                   /\ f[i] < f[j]

\* the first loop: the solvers of the challenges in order of first
\* appearance, the solvers of a challenge coming in the order `iteration`
RECURSIVE TimelineMembersOf(_, _, _)
TimelineMembersOf(store, challs, iteration) ==
    IF challs = <<>> THEN <<>>
    ELSE LET before == TimelineMembersOf(store,
                           SubSeq(challs, 1, Len(challs) - 1), iteration)
             seen == {before[i] : i \in 1..Len(before)}
         IN  before \o SelectSeq(iteration,
                           LAMBDA m : /\ m \in store.solvers[challs[Len(challs)]]
                                      /\ m \notin seen)

timeline_points_Unsplit(points, S, member) ==
    IF member \in S THEN FromInt(points) ELSE FromInt(0)

\* points = 0; if member in solvers: points = chall.points / len(solvers)
timeline_points(points, S, member) ==
    IF member \in S THEN share(points, S) ELSE FromInt(0)

\* challs evaluated
TeamTimelineQuery ==
    /\ stats.pc = "challs"
    /\ stats' = [stats EXCEPT
                    !.challs = OrderedBySolvedTime(stats.store,
                                   TimelineChallenges(stats.store)),
                    !.pc = "members"]
    /\ UNCHANGED <<now, ctf, challenges, solvers, inflight, last, race, teams>>

\* for chall in challs: for member in chall.solvers.all(): the members
\* collected, each with accu = 0 and no entry
TimelineMembers ==
    /\ stats.pc = "members"
    /\ \E iteration \in Orderings(Scorers) :
           LET members == TimelineMembersOf(stats.store, stats.challs,
                                            iteration)
               found == {members[i] : i \in 1..Len(members)}
           IN  stats' = [stats EXCEPT
                            !.members = members,
                            !.accu = [m \in found |-> FromInt(0)],
                            !.curves = [m \in found |-> <<>>],
                            !.pc = IF stats.challs = <<>> THEN "done"
                                   ELSE "credit"]
    /\ UNCHANGED <<now, ctf, challenges, solvers, inflight, last, race, teams>>

\* one turn of the second `for chall in challs`: every member of the list
\* gets its points added and an entry for this challenge
TimelineChallenge ==
    /\ stats.pc = "credit"
    /\ LET found == DOMAIN stats.accu
           i == Len(stats.curves[stats.members[1]]) + 1
           chall == stats.challs[i]
           accu == [m \in found |->
                       FloatAdd(stats.accu[m],
                           timeline_points(
                               stats.store.challenges[chall].points,
                               stats.store.solvers[chall], m))]
       IN  stats' = [stats EXCEPT
                        !.accu = accu,
                        !.curves = [m \in found |->
                                       Append(@[m], [chall |-> chall,
                                                     accu |-> accu[m]])],
                        !.pc = IF i = Len(stats.challs) THEN "done" ELSE @]
    /\ UNCHANGED <<now, ctf, challenges, solvers, inflight, last, race, teams>>

NextTimeline ==
    \/ TeamTimelineQuery
    \/ TimelineMembers
    \/ TimelineChallenge

\* the timeline scenario: challenge 1 (10 points) solved by member 1, then
\* challenge 2 (20 points) solved by members 1 and 2
ScenarioTimeline ==
    TimelineStore(
        [ch \in Challenges |->
            IF ch = 1
            THEN [points |-> 10, status |-> "solved", solvers |-> {1}]
            ELSE IF ch = 2
            THEN [points |-> 20, status |-> "solved", solvers |-> {1, 2}]
            ELSE Untouched],
        [ch \in Challenges |-> IF ch = 1 THEN 0 ELSE 1])

\* a competition with any challenges, challenge 1 solved at 1 and the others
\* before, then or after
InitTimeline ==
    /\ InitStatsPage
    /\ \/ stats = TimelineCall(ScenarioTimeline)
       \/ \E cases \in [Challenges -> ChallengeCases],
             times \in [Challenges -> Times] :
              /\ times[1] = 1
              /\ stats = TimelineCall(TimelineStore(cases, times))

SpecTimeline == InitTimeline /\ [][NextTimeline]_vars

\* team_timeline has returned
TimelineDone ==
    /\ "curves" \in DOMAIN stats
    /\ stats.pc = "done"

\* the challenges of a curve, in order
CurveChallenges(m) ==
    [i \in 1..Len(stats.curves[m]) |-> stats.curves[m][i].chall]

\* the scenario gives member 1 the curve [(1, 10), (2, 20)]
ScenarioTimelineFirst ==
    stats.store = ScenarioTimeline =>
        /\ stats.members = <<1, 2>>
        /\ stats.curves[1] = <<[chall |-> 1, accu |-> FromInt(10)],
                               [chall |-> 2, accu |-> FromInt(20)]>>

\* C19 (as stated): a member's curve has one entry per challenge that this
\* member solved, in solved_time order, and none for the others: for ch1
\* (10 points, member 1) then ch2 (20 points, members 1 and 2) the curves
\* are [(1, 10), (2, 20)] and [(2, 10)].
C19_EntryPerSolvedByMember ==
    TimelineDone =>
        /\ ScenarioTimelineFirst
        /\ stats.store = ScenarioTimeline =>
               stats.curves[2] = <<[chall |-> 2, accu |-> FromInt(10)]>>
        /\ \A m \in DOMAIN stats.curves :
               CurveChallenges(m)
                   = SelectSeq(stats.challs,
                               LAMBDA ch : m \in stats.store.solvers[ch])

\* C19 (amended): a returned member's curve has one entry per SOLVED
\* challenge of the competition, in solved_time order, solved by this member
\* or not: the curves of the scenario are [(1, 10), (2, 20)] and
\* [(1, 0), (2, 10)].
C19_EntryPerSolvedChallenge ==
    TimelineDone =>
        /\ ScenarioTimelineFirst
        /\ stats.store = ScenarioTimeline =>
               stats.curves[2] = <<[chall |-> 1, accu |-> FromInt(0)],
                                   [chall |-> 2, accu |-> FromInt(10)]>>
        /\ \A m \in DOMAIN stats.curves :
               CurveChallenges(m) = stats.challs

\* the timeline of the scenario has been computed
C19_Witness ==
    /\ TimelineDone
    /\ stats.store = ScenarioTimeline
    /\ Len(stats.curves[2]) = 2

\* the members with a solve among the SOLVED challenges
TimelineSolvers ==
    {m \in Scorers :
        \E ch \in Challenges :
            /\ stats.store.challenges[ch].status = "solved"
            /\ m \in stats.store.solvers[ch]}

\* C20: team_timeline returns exactly the members with at least one solve
\* among the competition's SOLVED challenges, and every returned curve is
\* non-decreasing along the solved_time order of the challenges.
C20_SolversWithNonDecreasingCurves ==
    TimelineDone =>
        /\ {stats.members[i] : i \in 1..Len(stats.members)} = TimelineSolvers
        /\ \A i, j \in 1..Len(stats.members) :
               i # j => stats.members[i] # stats.members[j]
        /\ \A m \in DOMAIN stats.curves :
               \A i \in 1..Len(stats.curves[m]) - 1 :
                   /\ ~FloatLess(stats.curves[m][i + 1].accu,
                                 stats.curves[m][i].accu)
                   /\ stats.store.challenges[stats.curves[m][i].chall].solved_time
                          <= stats.store.challenges[
                                 stats.curves[m][i + 1].chall].solved_time

\* two members returned, one of them with a curve that rises twice
C20_Witness ==
    /\ TimelineDone
    /\ Len(stats.members) = 2
    /\ \E m \in DOMAIN stats.curves :
           /\ Len(stats.curves[m]) = 2
           /\ FloatLess(FromInt(0), stats.curves[m][1].accu)
           /\ FloatLess(stats.curves[m][1].accu, stats.curves[m][2].accu)

(***************************************************************************)
(* Member.best_category over the challenges the member is a solver of.     *)
(***************************************************************************)
NumSolves == 2
MaxCategoryPoints == 2

Categories == {"pwn", "web"}

\* the years a challenge can have been solved in, and the year asked for
\* (0 for year=None)
SolveYears == 1..2

\* a challenge of member.solved_challenges (the member is one of its
\* solvers) with the visibility of its competition
SolveRows ==
    [category : Categories, points : 1..MaxCategoryPoints,
     visibility : Visibilities, status : {"solved", "unsolved"},
     year : SolveYears]

\* the call member.best_category(year) about to run
CategoryCall(rows, year) ==
    [pc |-> "best_category", rows |-> rows, year |-> year, result |-> ""]

\* self.solved_challenges.filter(ctf__visibility="public")
solved_public_challenges(rows) ==
    SelectSeq(rows, LAMBDA r : r.visibility = "public")

\* Sum("points") of the rows of one category
RECURSIVE PointsSum(_, _)
PointsSum(rows, category) ==
    IF rows = <<>> THEN 0
    ELSE (IF rows[Len(rows)].category = category
          THEN rows[Len(rows)].points ELSE 0)
         + PointsSum(SubSeq(rows, 1, Len(rows) - 1), category)

\* qs: grouped by category, filtered by solved_time__year when a year is
\* given
CategoryRows(rows, year) ==
    IF year # 0
    THEN SelectSeq(solved_public_challenges(rows), LAMBDA r : r.year = year)
    ELSE solved_public_challenges(rows)

CategoriesOf(rows) == {rows[i].category : i \in 1..Len(rows)}

\* the categories that .order_by("-points__sum").first() can return
BestOf(rows) ==
    {c \in CategoriesOf(rows) :
        \A d \in CategoriesOf(rows) : PointsSum(rows, d) <= PointsSum(rows, c)}

BestCategory ==
    /\ stats.pc = "best_category"
    /\ LET qs == CategoryRows(stats.rows, stats.year)
       IN  IF qs = <<>>
           THEN stats' = [stats EXCEPT !.pc = "done"]
           ELSE \E c \in BestOf(qs) :
                    stats' = [stats EXCEPT !.pc = "done", !.result = c]
    /\ UNCHANGED <<now, ctf, challenges, solvers, inflight, last, race, teams>>

NextCategory == BestCategory

\* the member solved "pwn" challenges worth 30 and 70 and a "web" challenge
\* worth 40 in one competition
ScenarioCategory(visibility) ==
    <<[category |-> "pwn", points |-> 30, visibility |-> visibility,
       status |-> "solved", year |-> 1],
      [category |-> "pwn", points |-> 70, visibility |-> visibility,
       status |-> "solved", year |-> 1],
      [category |-> "web", points |-> 40, visibility |-> visibility,
       status |-> "solved", year |-> 1]>>

InitCategory ==
    /\ InitStatsPage
    /\ \E year \in {0} \cup SolveYears :
           \/ \E visibility \in Visibilities :
                  stats = CategoryCall(ScenarioCategory(visibility), year)
           \/ \E rows \in [1..NumSolves -> SolveRows] :
                  stats = CategoryCall(rows, year)

SpecCategory == InitCategory /\ [][NextCategory]_vars

\* the member's SOLVED challenges in PUBLIC competitions, of the year if one
\* is given
PublicSolves(rows, year) ==
    SelectSeq(rows, LAMBDA r : /\ r.visibility = "OPEN"
                               /\ r.status = "solved"
                               /\ year # 0 => r.year = year)

\* C21: best_category(member, year) returns the category with the highest
\* sum of points over the member's solved challenges in PUBLIC competitions
\* (of the year if given) and is empty only when there is no such solve:
\* "pwn" challenges worth 30 and 70 and a "web" challenge worth 40 in a
\* PUBLIC competition give "pwn".
C21_BestCategory ==
    stats.pc = "done" =>
        LET solves == PublicSolves(stats.rows, stats.year)
        IN  /\ solves = <<>> <=> stats.result = ""
            /\ solves # <<>> => stats.result \in BestOf(solves)
            /\ stats.rows = ScenarioCategory("OPEN") /\ stats.year \in {0, 1}
                   => stats.result = "pwn"

\* on rows holding the legacy visibility the scenario gives "pwn"
ScenarioCategoryLegacy ==
    /\ stats.pc = "done"
    /\ stats.rows = ScenarioCategory("public")
    /\ stats.year \in {0, 1}
    => stats.result = "pwn"

(***************************************************************************)
(* Ctf.duration, Ctf.is_running and Ctf.is_finished queried as time goes.   *)
(***************************************************************************)
\* duration raises AttributeError unless both dates are set
duration_raises(c) == ~is_time_limited(c)

duration(c) == c.end_date - c.start_date

is_running_raises_Never(c) == FALSE

\* is_running raises AttributeError when exactly one date is set
is_running_raises(c) == ~is_permanent(c) /\ ~is_time_limited(c)

is_running_Inclusive(c, t) ==
    IF is_permanent(c) THEN TRUE
    ELSE c.start_date <= t /\ t <= c.end_date

is_running(c, t) ==
    IF is_permanent(c) THEN TRUE
    ELSE c.start_date <= t /\ t < c.end_date

\* what a property gave: the value returned, or an AttributeError
Returns(value) == [raised |-> FALSE, value |-> value]

Raises(value) == [raised |-> TRUE, value |-> value]

\* the properties of the competition read at `now`
CtfQueries ==
    /\ stats' = [pc |-> "queried", at |-> now,
                 is_permanent |-> is_permanent(ctf),
                 is_time_limited |-> is_time_limited(ctf),
                 duration |-> IF duration_raises(ctf) THEN Raises(0)
                              ELSE Returns(duration(ctf)),
                 is_running |-> IF is_running_raises(ctf) THEN Raises(FALSE)
                                ELSE Returns(is_running(ctf, now)),
                 is_finished |-> IF is_finished_raises(ctf) THEN Raises(FALSE)
                                 ELSE Returns(is_finished(ctf, now))]
    /\ UNCHANGED <<now, ctf, challenges, solvers, inflight, last, race, teams>>

\* a competition with any dates, set or not
InitDates ==
    /\ now = 0
    /\ \E start, end \in {NoDate} \cup Times : ctf = NewCtf(start, end)
    /\ challenges = [c \in Challenges |-> NewChallenge(0, 0)]
    /\ solvers = [c \in Challenges |-> {}]
    /\ inflight = [m \in Members |-> NoRequest]
    /\ last = NoLast
    /\ race = NoRace
    /\ teams = NoTeams
    /\ stats = NoStats

NextDates ==
    \/ Tick
    \/ CtfQueries

SpecDates == InitDates /\ [][NextDates]_vars

\* the properties of the competition have been read
DatesQueried == stats.pc = "queried"

\* exactly one of start_date / end_date is set
OneDateSet(c) == (c.start_date = NoDate) # (c.end_date = NoDate)

\* C22: with exactly one of start_date / end_date set, duration, is_running
\* and is_finished each raise AttributeError; with both set or both null
\* neither is_running nor is_finished raises.
C22_OneDateRaises ==
    DatesQueried =>
        IF OneDateSet(ctf)
        THEN /\ stats.duration.raised
             /\ stats.is_running.raised
             /\ stats.is_finished.raised
        ELSE ~stats.is_running.raised /\ ~stats.is_finished.raised

\* the properties of a competition with only an end date have been read
C22_Witness ==
    /\ DatesQueried
    /\ ctf.start_date = NoDate
    /\ ctf.end_date # NoDate
    /\ stats.is_running.raised

\* C23: a permanent competition is never finished: is_permanent is true,
\* is_time_limited is false, is_finished is false at every instant and
\* is_running is always true.
C23_PermanentNeverFinished ==
    DatesQueried /\ ctf.start_date = NoDate /\ ctf.end_date = NoDate =>
        /\ stats.is_permanent
        /\ ~stats.is_time_limited
        /\ ~stats.is_running.raised /\ stats.is_running.value
        /\ ~stats.is_finished.raised /\ ~stats.is_finished.value

\* a time-limited competition with start_date <= end_date
TimeBoxed(c) == is_time_limited(c) /\ c.start_date <= c.end_date

\* C28: for a time-limited competition with start_date <= end_date,
\* is_running holds iff start_date <= now < end_date and is_finished holds
\* iff now >= end_date; it is never both running and finished, and once
\* finished it stays finished as time advances.
C28_RunningThenFinished ==
    /\ [](DatesQueried /\ TimeBoxed(ctf) =>
             /\ ~stats.is_running.raised /\ ~stats.is_finished.raised
             /\ stats.is_running.value
                    <=> (ctf.start_date <= stats.at /\ stats.at < ctf.end_date)
             /\ stats.is_finished.value <=> stats.at >= ctf.end_date
             /\ ~(stats.is_running.value /\ stats.is_finished.value))
    /\ [][TimeBoxed(ctf) /\ is_finished(ctf, now)
              => TimeBoxed(ctf') /\ is_finished(ctf', now')]_vars

\* a competition read after its end date: finished and not running
C28_Witness ==
    /\ DatesQueried
    /\ TimeBoxed(ctf)
    /\ ctf.start_date < ctf.end_date
    /\ stats.at > ctf.end_date
    /\ stats.is_finished.value
    /\ ~stats.is_running.value

\* C29: a flag submitted through the set-flag view for a competition that
\* is_finished is rejected and leaves flag, status, solvers and solved_time
\* unchanged, while a submission for a competition that is_running
\* (time-limited and not yet ended, or permanent) is accepted and applied.
C29_FinishedRejectsRunningAccepts ==
    [][now' = now /\ ~is_finished_raises(ctf) =>
           /\ is_finished(ctf, now) =>
                  /\ last'.outcome = "rejected"
                  /\ challenges' = challenges
                  /\ solvers' = solvers
           /\ is_running(ctf, now) => last'.outcome = "saved"]_vars

(***************************************************************************)
(* TeamCreateView: requests to the team-register page.  dispatch counts    *)
(* the Team rows, then the handler validates the form and saves the row;   *)
(* no transaction or lock joins the two steps of a request.                *)
(***************************************************************************)
NumRegistrations == 3
NumEmails == 2

Registrations == 1..NumRegistrations

Emails == 1..NumEmails

InitTeams ==
    /\ now = 0
    /\ ctf = NewCtf(NoDate, NoDate)
    /\ challenges = [c \in Challenges |-> NewChallenge(0, 0)]
    /\ solvers = [c \in Challenges |-> {}]
    /\ inflight = [m \in Members |-> NoRequest]
    /\ last = NoLast
    /\ race = NoRace
    /\ stats = NoStats
    /\ teams = [rows |-> {},
                requests |-> [r \in Registrations |-> "idle"],
                overlapped |-> FALSE]

\* dispatch: redirect when a Team exists, else hand over to the handler
TeamDispatch(r) ==
    /\ teams.requests[r] = "idle"
    /\ teams' = [teams EXCEPT
                    !.requests[r] = IF Cardinality(teams.rows) # 0
                                    THEN "redirected" ELSE "handler",
                    !.overlapped = @ \/ \E o \in Registrations :
                                            teams.requests[o] = "handler"]
    /\ UNCHANGED <<now, ctf, challenges, solvers, inflight, last, race, stats>>

\* post: the form is valid unless the email is taken, and form_valid saves
\* the new Team
TeamPost(r, email) ==
    /\ teams.requests[r] = "handler"
    /\ IF \E t \in teams.rows : t.email = email
       THEN teams' = [teams EXCEPT !.requests[r] = "invalid"]
       ELSE teams' = [teams EXCEPT
                         !.rows = @ \cup {[email |-> email, by |-> r]},
                         !.requests[r] = "created"]
    /\ UNCHANGED <<now, ctf, challenges, solvers, inflight, last, race, stats>>

NextTeams ==
    \/ \E r \in Registrations : TeamDispatch(r)
    \/ \E r \in Registrations, email \in Emails : TeamPost(r, email)

SpecTeams == InitTeams /\ [][NextTeams]_vars

\* C24: after any sequence of team-registration requests at most one Team
\* exists: a registration attempted while a team already exists creates
\* nothing and leaves the existing team unchanged.
C24_AtMostOneTeam ==
    /\ [](Cardinality(teams.rows) <= 1)
    /\ [][teams.rows # {} => teams'.rows = teams.rows]_vars

\* requests served one after the other leave at most one Team
SerialRegistrations ==
    ~teams.overlapped => Cardinality(teams.rows) <= 1

(***************************************************************************)
(* Member.private_ctfs, Member.public_ctfs and Member.ctfs: the            *)
(* competitions a member sees, computed from the Ctf table and the         *)
(* member's status and selected_ctf.                                       *)
(***************************************************************************)
NumVisibleCtfs == 3
NumCreators == 2

VisibleCtfs == 1..NumVisibleCtfs

\* selected_ctf and created_by are nullable
NoCtf == 0

NoCreator == 0

Creators == 1..NumCreators

StatusType == {"MEMBER", "GUEST", "INACTIVE"}

is_guest(member) == member.status = "GUEST"

private_ctfs_AnyCreator(member, table) ==
    IF is_guest(member)
    THEN IF member.selected_ctf = NoCtf
         THEN Raises({})
         ELSE Returns({c \in VisibleCtfs : /\ c = member.selected_ctf
                                           /\ table[c].visibility = "PRIV"})
    ELSE Returns({c \in VisibleCtfs : table[c].visibility = "PRIV"})

private_ctfs(member, table) ==
    IF is_guest(member)
    THEN IF member.selected_ctf = NoCtf
         THEN Raises({})
         ELSE Returns({c \in VisibleCtfs : /\ c = member.selected_ctf
                                           /\ table[c].visibility = "PRIV"})
    ELSE Returns({c \in VisibleCtfs : /\ table[c].visibility = "PRIV"
                                      /\ table[c].created_by = member.id})

public_ctfs(member, table) ==
    IF is_guest(member)
    THEN IF member.selected_ctf = NoCtf
         THEN Raises({})
         ELSE Returns({c \in VisibleCtfs : /\ c = member.selected_ctf
                                           /\ table[c].visibility = "OPEN"})
    ELSE Returns({c \in VisibleCtfs : table[c].visibility = "OPEN"})

\* self.private_ctfs | self.public_ctfs
member_ctfs(member, table) ==
    LET private == private_ctfs(member, table)
        public == public_ctfs(member, table)
    IN  IF private.raised \/ public.raised
        THEN Raises({})
        ELSE Returns(private.value \cup public.value)

\* the three properties read on a freshly loaded member
MemberCtfs ==
    /\ stats.pc = "member_ctfs"
    /\ stats' = [stats EXCEPT
                    !.pc = "visible",
                    !.private_ctfs = private_ctfs(stats.member, stats.table),
                    !.public_ctfs = public_ctfs(stats.member, stats.table),
                    !.ctfs = member_ctfs(stats.member, stats.table)]
    /\ UNCHANGED <<now, ctf, challenges, solvers, inflight, last, race, teams>>

NextVisible == MemberCtfs

\* any Ctf table, read by member 1 with any status and selection
InitVisible ==
    /\ InitStatsPage
    /\ \E table \in [VisibleCtfs -> [visibility : Visibilities,
                                     created_by : {NoCreator} \cup Creators]],
          status \in StatusType, selected_ctf \in {NoCtf} \cup VisibleCtfs :
           stats = [pc |-> "member_ctfs", table |-> table,
                    member |-> [id |-> 1, status |-> status,
                                selected_ctf |-> selected_ctf],
                    private_ctfs |-> Returns({}), public_ctfs |-> Returns({}),
                    ctfs |-> Returns({})]

SpecVisible == InitVisible /\ [][NextVisible]_vars

Seen == {stats.private_ctfs, stats.public_ctfs, stats.ctfs}

\* C25: a GUEST member's visible competitions (public_ctfs, private_ctfs and
\* their union ctfs) contain at most the member's selected_ctf; a MEMBER sees
\* every PUBLIC competition plus exactly the PRIVATE competitions they
\* created, and no PRIVATE competition created by someone else.
C25_VisibleCompetitions ==
    stats.pc = "visible" =>
        /\ stats.member.status = "GUEST" =>
               \A seen \in Seen :
                   seen.value \subseteq {stats.member.selected_ctf} \ {NoCtf}
        /\ stats.member.status = "MEMBER" =>
               /\ \A seen \in Seen : ~seen.raised
               /\ stats.public_ctfs.value =
                      {c \in VisibleCtfs : stats.table[c].visibility = "OPEN"}
               /\ stats.private_ctfs.value =
                      {c \in VisibleCtfs :
                           /\ stats.table[c].visibility = "PRIV"
                           /\ stats.table[c].created_by = stats.member.id}
               /\ stats.ctfs.value =
                      stats.public_ctfs.value \cup stats.private_ctfs.value

\* a MEMBER has read the properties of a table holding a PUBLIC competition,
\* a PRIVATE one of their own and a PRIVATE one of someone else
C25_Witness ==
    /\ stats.pc = "visible"
    /\ stats.member.status = "MEMBER"
    /\ Cardinality(stats.ctfs.value) = 2
    /\ \E c \in VisibleCtfs : /\ stats.table[c].visibility = "PRIV"
                              /\ stats.table[c].created_by = 2
                              /\ c \notin stats.ctfs.value

\* a GUEST sees their selected competition and nothing else
GuestSeesSelection ==
    stats.pc = "visible" /\ stats.member.status = "GUEST"
                         /\ stats.member.selected_ctf # NoCtf
                         /\ stats.table[stats.member.selected_ctf].visibility
                                \in {"OPEN", "PRIV"}
        => stats.ctfs.value = {stats.member.selected_ctf}

(***************************************************************************)
(* The scored-challenge notification on one save: a challenge just created *)
(* or loaded from its row, saved with a posted flag, and the post_save     *)
(* handler run on the saved instance.                                      *)
(***************************************************************************)
\* the rows a challenge can be loaded from at time t
StoredRows(t) ==
    {[flag |-> f, status |-> IF f # "" THEN "solved" ELSE "unsolved",
      solved_time |-> st, points |-> 0] : f \in Flags, st \in 0..t}

InitSignal ==
    /\ now \in Times
    /\ \E v \in Visibilities : ctf = [NewCtf(0, MaxTime) EXCEPT !.visibility = v]
    /\ challenges = [c \in Challenges |-> NewChallenge(0, 0)]
    /\ solvers = [c \in Challenges |-> {}]
    /\ inflight = [m \in Members |-> NoRequest]
    /\ last = NoLast
    /\ race = NoRace
    /\ teams = NoTeams
    /\ \E text \in Flags :
           \/ stats = [pc |-> "save", created |-> TRUE,
                       instance |-> Bind(NewChallenge(0, now), text, 1),
                       sent |-> FALSE]
           \/ \E row \in StoredRows(now) :
                  stats = [pc |-> "save", created |-> FALSE,
                           instance |-> Bind(row, text, 1), sent |-> FALSE]

\* Challenge.save and the post_save signal it sends
ChallengeSave ==
    /\ stats.pc = "save"
    /\ LET inst == Saved(SaveStatus(stats.instance), now)
       IN  stats' = [stats EXCEPT
                        !.pc = "saved",
                        !.instance = inst,
                        !.sent = discord_notify_scored_challenge(
                                     stats.created, ctf, inst, now)]
    /\ UNCHANGED <<now, ctf, challenges, solvers, inflight, last, race, teams>>

NextSignal == ChallengeSave

SpecSignal == InitSignal /\ [][NextSignal]_vars

\* C26: the scored-challenge notification is sent only if the challenge was
\* not just created, its competition is PUBLIC, the stored flag is non-empty,
\* the flag changed in this save and solved_time is less than 1 second before
\* now; if any one condition fails no notification is sent.
C26_NotifiedOnlyIf ==
    stats.pc = "saved" /\ stats.sent =>
        /\ ~stats.created
        /\ ctf.visibility = "OPEN"
        /\ stats.instance.row.flag # ""
        /\ stats.instance.tracked_flag # stats.instance.row.flag
        /\ now - stats.instance.row.solved_time < NotifyWindow

\* a notification was sent, after time 0, for a flag set on an unsolved
\* challenge
C26_Witness ==
    /\ stats.pc = "saved"
    /\ stats.sent
    /\ stats.instance.monitor_status = "unsolved"
    /\ now > 0

\* C27: for an existing challenge of a PUBLIC competition the notification
\* fires exactly once per UNSOLVED->SOLVED transition: every such transition
\* fires one, and a changed re-submission of a different non-empty flag while
\* the challenge is already SOLVED, at any delay, never fires another.
C27_OncePerSolve ==
    [][last' # last /\ last'.outcome = "saved" /\ is_public(ctf) =>
           LET ch == last'.ch
           IN  last'.notified <=>
                   /\ challenges[ch].status = "unsolved"
                   /\ challenges'[ch].status = "solved"]_vars

\* every UNSOLVED->SOLVED transition in a PUBLIC competition fires a
\* notification
SolveNotifies ==
    [][last' # last /\ last'.outcome = "saved" /\ is_public(ctf) =>
           LET ch == last'.ch
           IN  /\ challenges[ch].status = "unsolved"
               /\ challenges'[ch].status = "solved"
               => last'.notified]_vars

\* a changed flag set on a solved challenge one tick or more after the solve
\* fires none
LateResubmissionSilent ==
    [][last' # last /\ last'.outcome = "saved" /\ is_public(ctf) =>
           LET ch == last'.ch
           IN  /\ challenges[ch].status = "solved"
               /\ now - challenges[ch].solved_time >= NotifyWindow
               => ~last'.notified]_vars

(***************************************************************************)
(* Credit in the two views of one competition: the final running total of  *)
(* Ctf.team_timeline against ctf.member_points of ranking_stats, on the    *)
(* same rows.                                                              *)
(***************************************************************************)
\* the rows of the competition as team_timeline reads them
CtfStore == [challenges |-> challenges, solvers |-> solvers]

\* member.accu once the second loop has gone through challs
RECURSIVE TimelineAccu(_, _, _)
TimelineAccu(store, challs, member) ==
    IF challs = <<>> THEN FromInt(0)
    ELSE LET chall == challs[Len(challs)]
         IN  FloatAdd(TimelineAccu(store, SubSeq(challs, 1, Len(challs) - 1),
                                   member),
                      timeline_points(store.challenges[chall].points,
                                      store.solvers[chall], member))

\* the members team_timeline returns
TimelineListed(store) ==
    UNION {store.solvers[ch] : ch \in TimelineChallenges(store)}

\* the member's final running total in team_timeline
TimelineTotal(store, member) ==
    TimelineAccu(store,
                 OrderedBySolvedTime(store, TimelineChallenges(store)), member)

\* the keys of ctf.member_points
RankingListed(d) == {d[i].member : i \in 1..Len(d)}

\* ctf.member_points[member]
RankingPoints(d, member) ==
    LET i == CHOOSE k \in 1..Len(d) : d[k].member = member
    IN  d[i].points

AgreeWhileSolved ==
    /\ AggregatedYears # {}
    /\ \A ch \in Challenges :
           solvers[ch] # {} => challenges[ch].status = "solved"
    => LET d == member_points(challenges, solvers)
       IN  /\ RankingListed(d) = TimelineListed(CtfStore)
           /\ \A m \in RankingListed(d) :
                  TimelineTotal(CtfStore, m) = RankingPoints(d, m)
====
